---- MODULE Spec2Model ----
(***************************************************************************)
(* A model of the circles / shared-expenses REST backend.                  *)
(*                                                                         *)
(*   - routes/circle (POST /circle/create, GET /circle/byUser)             *)
(*   - models/plugin/expenses.js (bills and budgets data access)           *)
(*   - routes/user.js (POST /user/create)                                  *)
(*                                                                         *)
(* All durable state lives in the Data Store (tables are variables); each  *)
(* statement sent to the store is one atomic step, and a promise chain is  *)
(* split at every store round trip, so requests interleave exactly where   *)
(* Node.js lets them interleave.                                           *)
(***************************************************************************)
EXTENDS Integers, Sequences, FiniteSets, TLC

\* ------------------------------------------------------------------------
\* Universes and bounds
\* ------------------------------------------------------------------------
Users == {"u1", "u2"}

\* Request slots: how many create-circle requests can be in flight at once.
Slots == {"r1", "r2"}

\* Rows inserted over a run, bills and budgets together.
MaxRows == 2

\* The free-account limit of the create route.
Quota == 2

QuotaMessage == "You reached the free account limit."

NameMessage ==
    "The name must have a minimum of 3 characters and a maximum of 56 characters"

InternalMessage == "Internal Server Error"

\* Messages of the errors a Data Store fault rejects with.
DbErrors == {"ER_LOCK_DEADLOCK", "ECONNREFUSED"}

NameMin == 3
NameMax == 56

\* Lengths of the circle names requests carry (both sides of both limits).
NameLens == {2, 3, 56, 57}

VARIABLES
    circles,      \* tb_circle: set of [id, owner]
    members,      \* tb_circle_member: set of [userId, circleId, isOwner]
    nextCircleId, \* auto-increment of tb_circle
    req,          \* create-circle requests in flight, per slot
    overlap,      \* per owner, whether two of its requests were in flight at once
    byUser,       \* the last answer of GET /circle/byUser
    bills,        \* tb_plugin_expenses: set of [id, circleId, billCategoryId, billDate]
    nextBillId,   \* auto-increment of tb_plugin_expenses
    budgets,      \* tb_plugin_expenses_budget: [id, circleId, budgetStartDate, budgetEndDate]
    nextBudgetId, \* auto-increment of tb_plugin_expenses_budget
    last,         \* the last Expenses call and what it returned
    accounts,     \* tb_user: the e-mails registered
    nextExtId,    \* the next external id addNewUser hands out
    userRes       \* the last POST /user/create: what addNewUser did, the answer

circleVars == <<circles, members, nextCircleId, req, overlap, byUser>>
expensesVars == <<bills, nextBillId, budgets, nextBudgetId, last>>
userVars == <<accounts, nextExtId, userRes>>
vars == <<circleVars, expensesVars, userVars>>

\* ------------------------------------------------------------------------
\* Responses (models/transport/transport: status id, errors, data)
\* ------------------------------------------------------------------------
\* dataField: "value" (data carries ids), "null" (data: null), "absent"
\* (the property was deleted or never set).
Transport(status, errors, dataField, data) ==
    [status |-> status, errors |-> errors, dataField |-> dataField, data |-> data]

NoResponse == Transport(0, <<>>, "absent", <<>>)

formatError500Json(message) == Transport(500, <<InternalMessage>>, "absent", <<>>)

formatError404Json == Transport(404, <<"Not Found">>, "absent", <<>>)

Unauthorized == Transport(401, <<"Unauthorized">>, "absent", <<>>)

\* checkErrors(): the validation messages, answered as 422.
checkErrors(messages) == Transport(422, messages, "absent", <<>>)

\* ------------------------------------------------------------------------
\* POST /circle/create
\* ------------------------------------------------------------------------
\* check('name').isLength({ min: 3, max: 56 })
NameOk(len) == NameMin <= len /\ len <= NameMax

getNumberCirclesByOwner(ownerId) ==
    Cardinality({c \in circles : c.owner = ownerId})

\* Slips of the quota check: an off-by-one limit, and no check at all.
QuotaAllowsInclusive(result) == result <= Quota

QuotaAllowsAlways(result) == TRUE

\* if (result < 2) return result; else throw new Error(...)
QuotaAllows(result) == result < Quota

\* .then((circleId) => res.json(new Transport(200, null, { circleId })))
CreateOk(circleId) == Transport(200, <<>>, "value", <<circleId>>)

\* A slip of the catch: every error takes the 500 path.
CreateCatchAll500(message) == formatError500Json(message)

\* .catch((error) => ...): the quota message answers 422 without the data
\* property, anything else goes to formatError500Json.
CreateCatch(message) ==
    IF message = QuotaMessage
    THEN Transport(422, <<message>>, "absent", <<>>)
    ELSE formatError500Json(message)

IdleReq ==
    [pc |-> "idle", owner |-> "u1", n |-> -1, invoked |-> FALSE,
     atInsert |-> -1, fault |-> "", res |-> NoResponse]

InFlight(s) == req[s].pc \in {"count", "add"}

\* A request arrives: passport.authenticate, the name check, checkErrors(),
\* then the handler calls getNumberCirclesByOwner (the read itself is the
\* next step).
CreateStart(s, u, authed, len) ==
    /\ req[s].pc = "idle"
    /\ IF ~authed
       THEN /\ req' = [req EXCEPT ![s] = [IdleReq EXCEPT !.pc = "done", !.owner = u,
                                                       !.res = Unauthorized]]
            /\ UNCHANGED overlap
       ELSE IF ~NameOk(len)
       THEN /\ req' = [req EXCEPT ![s] = [IdleReq EXCEPT !.pc = "done", !.owner = u,
                                          !.res = checkErrors(<<NameMessage>>)]]
            /\ UNCHANGED overlap
       ELSE /\ req' = [req EXCEPT ![s] = [IdleReq EXCEPT !.pc = "count", !.owner = u]]
            /\ overlap' = [overlap EXCEPT ![u] =
                             @ \/ \E t \in Slots \ {s} : InFlight(t) /\ req[t].owner = u]
    /\ UNCHANGED <<circles, members, nextCircleId, byUser>>

\* The store answers the count; the first .then decides on it at once.
CreateCount(s) ==
    /\ req[s].pc = "count"
    /\ LET result == getNumberCirclesByOwner(req[s].owner)
       IN IF QuotaAllows(result)
          THEN /\ req' = [req EXCEPT ![s].pc = "add", ![s].n = result,
                                     ![s].invoked = TRUE]
          ELSE /\ req' = [req EXCEPT ![s].pc = "done", ![s].n = result,
                                     ![s].res = CreateCatch(QuotaMessage)]
    /\ UNCHANGED <<circles, members, nextCircleId, overlap, byUser>>

\* The count rejects with a Data Store fault.
CreateCountFault(s, e) ==
    /\ req[s].pc = "count"
    /\ req' = [req EXCEPT ![s].pc = "done", ![s].fault = e, ![s].res = CreateCatch(e)]
    /\ UNCHANGED <<circles, members, nextCircleId, overlap, byUser>>

\* addNewCircle(ownerId, email, name): the circle and its owner's membership.
CreateAdd(s) ==
    /\ req[s].pc = "add"
    /\ LET u == req[s].owner
           id == nextCircleId
       IN /\ circles' = circles \cup {[id |-> id, owner |-> u]}
          /\ members' = members \cup {[userId |-> u, circleId |-> id, isOwner |-> 1]}
          /\ nextCircleId' = id + 1
          /\ req' = [req EXCEPT ![s].pc = "done",
                                ![s].atInsert = getNumberCirclesByOwner(u),
                                ![s].res = CreateOk(id)]
    /\ UNCHANGED <<overlap, byUser>>

\* addNewCircle rejects with a Data Store fault.
CreateAddFault(s, e) ==
    /\ req[s].pc = "add"
    /\ req' = [req EXCEPT ![s].pc = "done", ![s].fault = e, ![s].res = CreateCatch(e)]
    /\ UNCHANGED <<circles, members, nextCircleId, overlap, byUser>>

\* The response was sent; the slot serves the next request.
CreateEnd(s) ==
    /\ req[s].pc = "done"
    /\ req' = [req EXCEPT ![s] = IdleReq]
    /\ UNCHANGED <<circles, members, nextCircleId, overlap, byUser>>

\* A member is invited into a circle by its owner (tb_circle_member row with
\* isOwner = 0).
AddMember(c, u) ==
    /\ \E k \in circles : k.id = c
    /\ ~\E m \in members : m.userId = u /\ m.circleId = c
    /\ members' = members \cup {[userId |-> u, circleId |-> c, isOwner |-> 0]}
    /\ UNCHANGED <<circles, nextCircleId, req, overlap, byUser>>

\* ------------------------------------------------------------------------
\* GET /circle/byUser
\* ------------------------------------------------------------------------
RECURSIVE Ascending(_)
Ascending(S) ==
    IF S = {} THEN <<>>
    ELSE LET m == CHOOSE x \in S : \A y \in S : x <= y
         IN <<m>> \o Ascending(S \ {m})

\* CircleService.GetCircleByUser(userId): the circles the user is a member
\* of (invited or owner), null when there is none.
GetCircleByUser(userId) ==
    LET ids == {m.circleId : m \in {x \in members : x.userId = userId}}
    IN [isNull |-> ids = {}, rows |-> Ascending(ids)]

\* A slip of the handler: the null result is answered like a list.
ByUserAnswerNoNullCheck(result) == Transport(200, <<>>, "value", result.rows)

\* if (result === null) formatError404Json(res)
\* else res.json(new Transport(200, null, { circles: result }))
ByUserAnswer(result) ==
    IF result.isNull
    THEN formatError404Json
    ELSE Transport(200, <<>>, "value", result.rows)

ByUser(u) ==
    /\ byUser' = [user |-> u, fault |-> "",
                  count |-> Cardinality({m \in members : m.userId = u}),
                  res |-> ByUserAnswer(GetCircleByUser(u))]
    /\ UNCHANGED <<circles, members, nextCircleId, req, overlap>>

\* GetCircleByUser rejects with a Data Store fault.
ByUserFault(u, e) ==
    /\ byUser' = [user |-> u, fault |-> e, count |-> -1,
                  res |-> formatError500Json(e)]
    /\ UNCHANGED <<circles, members, nextCircleId, req, overlap>>

\* The other routes' state, as it is before any of their requests.
ByUserIdle == [user |-> "u1", fault |-> "", count |-> -1, res |-> NoResponse]

LastIdle ==
    [op |-> "none", userId |-> "u1", circleId |-> 0, id |-> 0, member |-> FALSE,
     after |-> 0, threw |-> FALSE, isNull |-> FALSE, count |-> 0, rows |-> <<>>]

ExpensesIdle ==
    /\ bills = {}
    /\ nextBillId = 1
    /\ budgets = {}
    /\ nextBudgetId = 1
    /\ last = LastIdle

UserResIdle == [outcome |-> "none", message |-> "", res |-> NoResponse]

UserIdle ==
    /\ accounts = {}
    /\ nextExtId = 1
    /\ userRes = UserResIdle

CircleInit ==
    /\ circles = {}
    /\ members = {}
    /\ nextCircleId = 1
    /\ req = [s \in Slots |-> IdleReq]
    /\ overlap = [u \in Users |-> FALSE]
    /\ byUser = ByUserIdle
    /\ ExpensesIdle
    /\ UserIdle

CircleNext ==
    \/ \E s \in Slots, u \in Users, authed \in BOOLEAN, len \in NameLens :
           CreateStart(s, u, authed, len) /\ UNCHANGED <<expensesVars, userVars>>
    \/ \E s \in Slots : CreateCount(s) /\ UNCHANGED <<expensesVars, userVars>>
    \/ \E s \in Slots, e \in DbErrors :
           CreateCountFault(s, e) /\ UNCHANGED <<expensesVars, userVars>>
    \/ \E s \in Slots : CreateAdd(s) /\ UNCHANGED <<expensesVars, userVars>>
    \/ \E s \in Slots, e \in DbErrors :
           CreateAddFault(s, e) /\ UNCHANGED <<expensesVars, userVars>>
    \/ \E s \in Slots : CreateEnd(s) /\ UNCHANGED <<expensesVars, userVars>>

\* POST /circle/create, requests interleaving at the store round trips.
SpecCircle == CircleInit /\ [][CircleNext]_vars

\* ------------------------------------------------------------------------
\* POST /circle/create: properties
\* ------------------------------------------------------------------------
Owned(u) == Cardinality({c \in circles : c.owner = u})

\* The count of request s resolved (the handler's first .then ran).
Counted(s) == req[s].pc \in {"add", "done"} /\ req[s].n >= 0

Denied(s) == req[s].pc = "done" /\ req[s].n >= Quota

\* C1: a create-circle request whose quota read returned n goes on to
\* addNewCircle if and only if n < 2, and then (addNewCircle resolving)
\* answers 200 with the id of a new circle of that owner; with n >= 2
\* addNewCircle is never invoked and the request is denied; a 200 is never
\* answered to a request that read n >= 2.  While an owner's requests run one
\* at a time, each creation finds the count it read (so the creations made
\* with 0 and with 1 circles succeed and leave 1 and 2), the owner never
\* holds more than 2 circles, and a denial is met with exactly 2.
CreateQuotaDecision ==
    \A s \in Slots :
        LET r == req[s]
        IN /\ Counted(s) => (r.invoked <=> r.n < Quota)
           /\ r.pc = "add" => r.n < Quota
           /\ (r.pc = "done" /\ r.n >= 0 /\ r.n < Quota /\ r.fault = "") =>
                 /\ r.res.status = 200
                 /\ r.res.dataField = "value"
                 /\ Len(r.res.data) = 1
                 /\ [id |-> r.res.data[1], owner |-> r.owner] \in circles
           /\ Denied(s) =>
                 /\ ~r.invoked
                 /\ r.atInsert = -1
                 /\ r.res.status = 422
                 /\ r.res.errors = <<QuotaMessage>>
           /\ (r.pc = "done" /\ r.res.status = 200) => (r.invoked /\ r.n < Quota)
           /\ ~overlap[r.owner] =>
                 /\ Owned(r.owner) <= Quota
                 /\ (r.pc = "done" /\ r.res.status = 200) => r.atInsert = r.n
                 /\ Denied(s) => r.n = Quota

\* The owner made two creations one request at a time and the third request
\* is denied.
ThirdCreateDenied ==
    \E s \in Slots :
        /\ Denied(s)
        /\ req[s].n = 2
        /\ ~overlap[req[s].owner]
        /\ Owned(req[s].owner) = 2
        /\ req[s].res.status = 422

\* C7: a quota denial answers 422 with the one reason and no data property;
\* a count or an insert that a Data Store fault rejects answers 500; no fault
\* is answered 422 and no denial (nor anything but a fault) is answered 500.
DenialDistinctFromFault ==
    \A s \in Slots :
        LET r == req[s]
        IN r.pc = "done" =>
             /\ Denied(s) => r.res = Transport(422, <<QuotaMessage>>, "absent", <<>>)
             /\ r.fault # "" => (r.res.status = 500 /\ ~Denied(s))
             /\ r.res.status = 422 => r.fault = ""
             /\ r.res.status = 500 => (r.fault \in DbErrors /\ ~Denied(s))

\* One request was denied and another one hit a fault.
DenialAndFaultAnswered ==
    \E s, t \in Slots :
        /\ Denied(s) /\ req[s].res.status = 422
        /\ req[t].pc = "done" /\ req[t].fault \in DbErrors /\ req[t].res.status = 500

\* C9: the bound of 2 circles per owner holds for an owner whose requests
\* ran one at a time; only requests in flight together can exceed it.
QuotaHoldsOneAtATime ==
    \A u \in Users : Owned(u) > Quota => overlap[u]

\* Two requests of an owner with 1 circle both read 1 before either insert,
\* both answer 200, and the owner ends with 3 circles.
BothPassQuota ==
    \E s, t \in Slots :
        /\ s # t
        /\ req[s].owner = req[t].owner
        /\ req[s].pc = "done" /\ req[t].pc = "done"
        /\ req[s].res.status = 200 /\ req[t].res.status = 200
        /\ req[s].n = 1 /\ req[t].n = 1
        /\ Owned(req[s].owner) = 3

\* ------------------------------------------------------------------------
\* GET /circle/byUser over the tables a few creations and invitations leave
\* ------------------------------------------------------------------------
CircleIdSet == {1, 2}

\* The tb_circle / tb_circle_member contents after k circles were created
\* and some users were invited.
CircleTables ==
    { [circles |-> {[id |-> i, owner |-> own[i]] : i \in 1..k},
       members |-> {[userId |-> own[i], circleId |-> i, isOwner |-> 1] : i \in 1..k}
                   \cup {[userId |-> p[1], circleId |-> p[2], isOwner |-> 0] : p \in inv}]
      : k \in {0} \cup CircleIdSet,
        own \in [CircleIdSet -> Users],
        inv \in SUBSET (Users \X CircleIdSet) }

TablesOk(t) ==
    /\ \A m \in t.members : \E c \in t.circles : c.id = m.circleId
    /\ \A m1, m2 \in t.members :
          (m1.userId = m2.userId /\ m1.circleId = m2.circleId) => m1 = m2

ByUserInit ==
    /\ \E t \in {x \in CircleTables : TablesOk(x)} :
          /\ circles = t.circles
          /\ members = t.members
          /\ nextCircleId = Cardinality(t.circles) + 1
    /\ req = [s \in Slots |-> IdleReq]
    /\ overlap = [u \in Users |-> FALSE]
    /\ byUser = ByUserIdle
    /\ ExpensesIdle
    /\ UserIdle

ByUserNext ==
    \/ \E c \in CircleIdSet, u \in Users :
           AddMember(c, u) /\ UNCHANGED <<expensesVars, userVars>>
    \/ \E u \in Users : ByUser(u) /\ UNCHANGED <<expensesVars, userVars>>
    \/ \E u \in Users, e \in DbErrors :
           ByUserFault(u, e) /\ UNCHANGED <<expensesVars, userVars>>

SpecByUser == ByUserInit /\ [][ByUserNext]_vars

\* C6: when GetCircleByUser resolves, a user with no membership row is
\* answered 404 Not Found (never a 200 with an empty list), and a user with
\* memberships is answered 200 with one circle per membership.
NoMembershipIsNotFound ==
    (byUser.res.status # 0 /\ byUser.fault = "") =>
        /\ byUser.count = 0 =>
              /\ byUser.res.status = 404
              /\ byUser.res.errors = <<"Not Found">>
              /\ byUser.res.dataField # "value"
        /\ byUser.count > 0 =>
              /\ byUser.res.status = 200
              /\ byUser.res.dataField = "value"
              /\ Len(byUser.res.data) = byUser.count

\* A user without memberships asked for its circles while circles exist.
NotFoundAnswered ==
    /\ byUser.fault = ""
    /\ byUser.count = 0
    /\ byUser.res.status = 404
    /\ circles # {}

\* ------------------------------------------------------------------------
\* models/plugin/expenses.js
\* ------------------------------------------------------------------------
\* tb_plugin_expenses_categories (reference data)
Categories == {[id |-> 1, categoryName |-> "Food"]}

\* billCategoryId values requests carry: a stored category and a missing one.
CategoryInputs == {1, 2}

\* billDate / budgetStartDate values, and the budgetEndDate of every budget.
Dates == {1, 2}
EndDates == {3}

IsMember(userId, circleId) ==
    \E m \in members : m.userId = userId /\ m.circleId = circleId

\* The foreign keys of tb_plugin_expenses: an insert naming a missing circle,
\* user or category is rejected by the store.
BillInsertAccepted(circleId, userId, billCategoryId) ==
    /\ \E c \in circles : c.id = circleId
    /\ userId \in Users
    /\ \E k \in Categories : k.id = billCategoryId

BudgetInsertAccepted(circleId, userId) ==
    /\ \E c \in circles : c.id = circleId
    /\ userId \in Users

\* ORDER BY key DESC over a set of [key, row]: every order the store may
\* return (rows of equal key come in any order).
RECURSIVE OrderByDesc(_)
OrderByDesc(S) ==
    IF S = {} THEN {<<>>}
    ELSE UNION { { <<x.row>> \o t : t \in OrderByDesc(S \ {x}) }
                 : x \in {y \in S : \A z \in S : y.key >= z.key} }

RECURSIVE OrderByAsc(_)
OrderByAsc(S) ==
    IF S = {} THEN {<<>>}
    ELSE UNION { { <<x.row>> \o t : t \in OrderByAsc(S \ {x}) }
                 : x \in {y \in S : \A z \in S : y.key <= z.key} }

\* Slips of the bills join: the CM.circleId = ? filter left out, and the
\* join written on PE.id instead of PE.circleId.
BillJoinAnyCircle(userId, circleId) ==
    { j \in bills \X members \X Categories :
        /\ j[1].circleId = j[2].circleId
        /\ j[1].billCategoryId = j[3].id
        /\ j[2].userId = userId }

BillJoinOnId(userId, circleId) ==
    { j \in bills \X members \X Categories :
        /\ j[1].id = j[2].circleId
        /\ j[1].billCategoryId = j[3].id
        /\ j[2].userId = userId
        /\ j[2].circleId = circleId }

\* tb_plugin_expenses AS PE INNER JOIN tb_circle_member AS CM
\*   on PE.circleId = CM.circleId
\* INNER JOIN tb_plugin_expenses_categories AS EC on PE.billCategoryId = EC.id
\* WHERE CM.userId = ? AND CM.circleId = ?
BillJoin(userId, circleId) ==
    { j \in bills \X members \X Categories :
        /\ j[1].circleId = j[2].circleId
        /\ j[1].billCategoryId = j[3].id
        /\ j[2].userId = userId
        /\ j[2].circleId = circleId }

\* SELECT PE.id, PE.billName, PE.billAmount, PE.billCategoryId,
\*        EC.categoryNAme, PE.billDate  (name and amount are carried, not read)
BillKeyed(J) ==
    { [key |-> j[1].billDate,
       row |-> [id |-> j[1].id, billCategoryId |-> j[1].billCategoryId,
                categoryName |-> j[3].categoryName, billDate |-> j[1].billDate]]
      : j \in J }

\* if (bills != null && bills.length >= 0) return bills.map(...) else null
ListResult(rows) ==
    IF Len(rows) >= 0 THEN [isNull |-> FALSE, rows |-> rows]
    ELSE [isNull |-> TRUE, rows |-> <<>>]

\* A slip of getBills: ORDER BY PE.billDate ASC.
getBillsAscending(userId, circleId) ==
    { ListResult(rows) : rows \in OrderByAsc(BillKeyed(BillJoin(userId, circleId))) }

\* getBills(userId, circleId): the results the call can resolve with.
getBills(userId, circleId) ==
    { ListResult(rows) : rows \in OrderByDesc(BillKeyed(BillJoin(userId, circleId))) }

\* tb_plugin_expenses_budget AS PEB INNER JOIN tb_circle_member AS CM
\*   on PEB.circleId = CM.circleId WHERE CM.userId = ? AND CM.circleId = ?
BudgetJoin(userId, circleId) ==
    { j \in budgets \X members :
        /\ j[1].circleId = j[2].circleId
        /\ j[2].userId = userId
        /\ j[2].circleId = circleId }

BudgetKeyed(J) ==
    { [key |-> j[1].budgetStartDate,
       row |-> [id |-> j[1].id, budgetStartDate |-> j[1].budgetStartDate,
                budgetEndDate |-> j[1].budgetEndDate]]
      : j \in J }

\* getBudgets(userId, circleId): the results the call can resolve with.
getBudgets(userId, circleId) ==
    { ListResult(rows) : rows \in OrderByDesc(BudgetKeyed(BudgetJoin(userId, circleId))) }

\* A slip of the delete: the circleId = ? condition left out.
BillsMatchingIdOnly(billId, circleId) == {b \in bills : b.id = billId}

\* DELETE from tb_plugin_expenses WHERE id = ? AND circleId = ?
BillsMatching(billId, circleId) ==
    {b \in bills : b.id = billId /\ b.circleId = circleId}

\* DELETE from tb_plugin_expenses_budget WHERE id = ? AND circleId = ?
BudgetsMatching(budgetId, circleId) ==
    {b \in budgets : b.id = budgetId /\ b.circleId = circleId}

\* What a call of (op, userId, circleId, id) records before its outcome.
Call(op, userId, circleId, id) ==
    [LastIdle EXCEPT !.op = op, !.userId = userId, !.circleId = circleId, !.id = id,
                     !.member = IsMember(userId, circleId)]

\* The bill the call just before this one added for (userId, circleId), 0 if
\* that call was anything else.
JustAdded(op, userId, circleId) ==
    IF last.op = op /\ ~last.threw /\ last.userId = userId /\ last.circleId = circleId
    THEN last.id ELSE 0

GetBills(userId, circleId) ==
    /\ \E r \in getBills(userId, circleId) :
          last' = [Call("getBills", userId, circleId, 0) EXCEPT
                      !.after = JustAdded("addBill", userId, circleId),
                      !.isNull = r.isNull, !.rows = r.rows]
    /\ UNCHANGED <<bills, nextBillId, budgets, nextBudgetId>>

GetBudgets(userId, circleId) ==
    /\ \E r \in getBudgets(userId, circleId) :
          last' = [Call("getBudgets", userId, circleId, 0) EXCEPT
                      !.after = JustAdded("addBudget", userId, circleId),
                      !.isNull = r.isNull, !.rows = r.rows]
    /\ UNCHANGED <<bills, nextBillId, budgets, nextBudgetId>>

RowsInserted == (nextBillId - 1) + (nextBudgetId - 1)

\* addBill: INSERT INTO tb_plugin_expenses ...; returns result.insertId.
\* The userId, billName and billAmount columns are written and read by no
\* statement, so the rows here leave them out.
AddBill(circleId, userId, billCategoryId, billDate) ==
    /\ RowsInserted < MaxRows
    /\ IF BillInsertAccepted(circleId, userId, billCategoryId)
       THEN /\ bills' = bills \cup
                   {[id |-> nextBillId, circleId |-> circleId,
                     billCategoryId |-> billCategoryId, billDate |-> billDate]}
            /\ nextBillId' = nextBillId + 1
            /\ last' = [Call("addBill", userId, circleId, nextBillId) EXCEPT
                           !.count = nextBillId]
       ELSE /\ last' = [Call("addBill", userId, circleId, 0) EXCEPT !.threw = TRUE]
            /\ UNCHANGED <<bills, nextBillId>>
    /\ UNCHANGED <<budgets, nextBudgetId>>

\* addBudget: INSERT INTO tb_plugin_expenses_budget ...; returns insertId.
AddBudget(circleId, userId, budgetStartDate, budgetEndDate) ==
    /\ RowsInserted < MaxRows
    /\ IF BudgetInsertAccepted(circleId, userId)
       THEN /\ budgets' = budgets \cup
                   {[id |-> nextBudgetId, circleId |-> circleId,
                     budgetStartDate |-> budgetStartDate,
                     budgetEndDate |-> budgetEndDate]}
            /\ nextBudgetId' = nextBudgetId + 1
            /\ last' = [Call("addBudget", userId, circleId, nextBudgetId) EXCEPT
                           !.count = nextBudgetId]
       ELSE /\ last' = [Call("addBudget", userId, circleId, 0) EXCEPT !.threw = TRUE]
            /\ UNCHANGED <<budgets, nextBudgetId>>
    /\ UNCHANGED <<bills, nextBillId>>

\* removeBill(userId, billId, circleId): returns result.affectedRows.
RemoveBill(userId, billId, circleId) ==
    /\ bills' = bills \ BillsMatching(billId, circleId)
    /\ last' = [Call("removeBill", userId, circleId, billId) EXCEPT
                   !.count = Cardinality(BillsMatching(billId, circleId))]
    /\ UNCHANGED <<nextBillId, budgets, nextBudgetId>>

\* removeBudget(userId, budgetId, circleId): returns result.affectedRows.
RemoveBudget(userId, budgetId, circleId) ==
    /\ budgets' = budgets \ BudgetsMatching(budgetId, circleId)
    /\ last' = [Call("removeBudget", userId, circleId, budgetId) EXCEPT
                   !.count = Cardinality(BudgetsMatching(budgetId, circleId))]
    /\ UNCHANGED <<bills, nextBillId, nextBudgetId>>

ExpensesOps ==
    {"getBills", "addBill", "removeBill", "getBudgets", "addBudget", "removeBudget"}

\* The query of a method rejects (a Data Store fault); .catch rethrows it.
QueryFault(op) ==
    /\ last' = [LastIdle EXCEPT !.op = op, !.threw = TRUE]
    /\ UNCHANGED <<bills, nextBillId, budgets, nextBudgetId>>

\* Two users own a circle each; invitations follow.
ExpensesInit ==
    /\ circles = {[id |-> 1, owner |-> "u1"], [id |-> 2, owner |-> "u2"]}
    /\ members = {[userId |-> "u1", circleId |-> 1, isOwner |-> 1],
                  [userId |-> "u2", circleId |-> 2, isOwner |-> 1]}
    /\ nextCircleId = 3
    /\ req = [s \in Slots |-> IdleReq]
    /\ overlap = [u \in Users |-> FALSE]
    /\ byUser = ByUserIdle
    /\ ExpensesIdle
    /\ UserIdle

RowIds == 1..MaxRows

ExpensesNext ==
    \/ \E c \in CircleIdSet, u \in Users :
           AddMember(c, u) /\ UNCHANGED <<expensesVars, userVars>>
    \/ \E u \in Users, c \in CircleIdSet :
           GetBills(u, c) /\ UNCHANGED <<circleVars, userVars>>
    \/ \E c \in CircleIdSet, u \in Users, k \in CategoryInputs, d \in Dates :
           AddBill(c, u, k, d) /\ UNCHANGED <<circleVars, userVars>>
    \/ \E u \in Users, b \in RowIds, c \in CircleIdSet :
           RemoveBill(u, b, c) /\ UNCHANGED <<circleVars, userVars>>
    \/ \E u \in Users, c \in CircleIdSet :
           GetBudgets(u, c) /\ UNCHANGED <<circleVars, userVars>>
    \/ \E c \in CircleIdSet, u \in Users, d \in Dates, e \in EndDates :
           AddBudget(c, u, d, e) /\ UNCHANGED <<circleVars, userVars>>
    \/ \E u \in Users, b \in RowIds, c \in CircleIdSet :
           RemoveBudget(u, b, c) /\ UNCHANGED <<circleVars, userVars>>
    \/ \E op \in ExpensesOps : QueryFault(op) /\ UNCHANGED <<circleVars, userVars>>

SpecExpenses == ExpensesInit /\ [][ExpensesNext]_vars

\* ------------------------------------------------------------------------
\* models/plugin/expenses.js: properties
\* ------------------------------------------------------------------------
Listed == last.op \in {"getBills", "getBudgets"} /\ ~last.threw

\* The table the last call worked on.
LastTable == IF last.op \in {"getBills", "addBill", "removeBill"} THEN bills ELSE budgets

\* The ORDER BY key of a returned row.
RowDate(row) == IF last.op = "getBills" THEN row.billDate ELSE row.budgetStartDate

\* C2: getBills / getBudgets of a (user, circle) with no membership row
\* resolve with an empty list (not null), and every row either returns is a
\* stored row of the circle asked for.
ListsScopedToMembership ==
    Listed =>
        /\ ~last.isNull
        /\ ~last.member => last.rows = <<>>
        /\ \A i \in 1..Len(last.rows) :
              /\ \E b \in LastTable : b.id = last.rows[i].id
              /\ \A b \in LastTable :
                    b.id = last.rows[i].id => b.circleId = last.circleId

\* A non-member lists the bills of a circle that has bills, while holding a
\* membership in another circle that has bills too.
NonMemberListedNothing ==
    /\ last.op = "getBills" /\ ~last.threw
    /\ ~last.member
    /\ last.rows = <<>>
    /\ \E b \in bills : b.circleId = last.circleId
    /\ \E b \in bills, m \in members :
          /\ b.circleId # last.circleId
          /\ m.userId = last.userId /\ m.circleId = b.circleId

\* C3: a removeBill / removeBudget that returns 1 was called by a user with
\* a membership row in the circle named.
RemovalOnlyByMembers ==
    (last.op \in {"removeBill", "removeBudget"} /\ ~last.threw /\ last.count = 1)
        => last.member

RemoveBillStep ==
    /\ last'.op = "removeBill" /\ ~last'.threw
    /\ last' # last \/ bills' # bills

RemoveBudgetStep ==
    /\ last'.op = "removeBudget" /\ ~last'.threw
    /\ last' # last \/ budgets' # budgets

\* C4: a removal deletes exactly the stored rows whose id and circleId both
\* match (at most one) and returns their number; when the id is stored in
\* another circle it returns 0 and the table is left as it was.
RemoveNeedsIdAndCircle ==
    [][ /\ RemoveBillStep =>
             LET hit == {b \in bills : b.id = last'.id /\ b.circleId = last'.circleId}
             IN /\ Cardinality(hit) <= 1
                /\ last'.count = Cardinality(hit)
                /\ bills' = bills \ hit
                /\ budgets' = budgets
                /\ (\E b \in bills : b.id = last'.id /\ b.circleId # last'.circleId)
                      => (last'.count = 0 /\ bills' = bills)
        /\ RemoveBudgetStep =>
             LET hit == {b \in budgets : b.id = last'.id /\ b.circleId = last'.circleId}
             IN /\ Cardinality(hit) <= 1
                /\ last'.count = Cardinality(hit)
                /\ budgets' = budgets \ hit
                /\ bills' = bills
                /\ (\E b \in budgets : b.id = last'.id /\ b.circleId # last'.circleId)
                      => (last'.count = 0 /\ budgets' = budgets)
      ]_vars

\* A removal named a stored bill with another circle's id, returned 0, and
\* the bill is still there.
MismatchedRemoveReturnedZero ==
    /\ last.op = "removeBill" /\ ~last.threw
    /\ last.count = 0
    /\ \E b \in bills : b.id = last.id /\ b.circleId # last.circleId

\* C5 as stated: a successful addBill(C, U, ...) followed at once by
\* getBills(U, C) returns a list that holds the new bill.
AddThenListIncludes ==
    (last.op = "getBills" /\ ~last.threw /\ last.after # 0) =>
        \E i \in 1..Len(last.rows) : last.rows[i].id = last.after

\* C5 amended: for a user with a membership row in the circle, a successful
\* addBill followed at once by getBills returns a list holding the new bill,
\* with the category and the date it was added with.
MemberAddThenListIncludes ==
    (last.op = "getBills" /\ ~last.threw /\ last.after # 0 /\ last.member) =>
        \E i \in 1..Len(last.rows), b \in bills, k \in Categories :
            /\ b.id = last.after
            /\ b.circleId = last.circleId
            /\ k.id = b.billCategoryId
            /\ last.rows[i] = [id |-> b.id, billCategoryId |-> b.billCategoryId,
                               categoryName |-> k.categoryName, billDate |-> b.billDate]

\* A member added a bill to a circle that already had one and listed both.
MemberListedNewBill ==
    /\ last.op = "getBills" /\ ~last.threw
    /\ last.after # 0
    /\ last.member
    /\ Len(last.rows) >= 2
    /\ \E i \in 1..Len(last.rows) : last.rows[i].id = last.after

\* C10: the rows getBills returns are in non-increasing billDate order and
\* the rows getBudgets returns in non-increasing budgetStartDate order.
ListsNewestFirst ==
    Listed =>
        \A i, j \in 1..Len(last.rows) :
            i < j => RowDate(last.rows[i]) >= RowDate(last.rows[j])

\* A list came back newest first although the newer row was inserted last.
NewerRowInsertedLastComesFirst ==
    /\ Listed
    /\ Len(last.rows) >= 2
    /\ RowDate(last.rows[1]) > RowDate(last.rows[2])
    /\ last.rows[1].id > last.rows[2].id

\* ------------------------------------------------------------------------
\* routes/user.js: POST /user/create
\* ------------------------------------------------------------------------
\* The e-mail values requests carry; the last three are well-formed.
EmailInputs == {"", "nobody", "a@x.io", "b@x.io", "c@x.io"}

IsEmail(e) == e \in {"a@x.io", "b@x.io", "c@x.io"}

\* Passwords as sequences of character classes: d digit, l lower case,
\* U upper case, s white space.
PasswordInputs ==
    { <<"l", "U", "d", "l", "l", "l">>,
      <<"l", "l", "d", "l", "l", "l">>,
      <<"l", "U", "d", "l", "l">>,
      <<"l", "U", "d", "s", "l", "l">>,
      <<"l", "U", "d", "l", "l", "l", "l", "l", "l", "l", "l", "l", "l", "l">> }

PasswordMin == 6
PasswordMax == 13

Has(p, class) == \E i \in 1..Len(p) : p[i] = class

\* /^(?=.*\d)(?=.*[a-z])(?=.*[A-Z])(?!.*\s).{6,13}$/
PasswordOk(p) ==
    /\ Has(p, "d") /\ Has(p, "l") /\ Has(p, "U")
    /\ ~Has(p, "s")
    /\ PasswordMin <= Len(p) /\ Len(p) <= PasswordMax

NameInputs == {"", "Ann"}

PasswordMessage ==
    "Password requires one lower case letter, one upper case letter, one digit, 6-13 length, and no spaces"

\* The messages validationResult(req) holds, field by field.
ValidationErrors(email, password, firstName, lastName) ==
    (IF email = "" THEN <<"Invalid value">> ELSE <<>>)
    \o (IF ~IsEmail(email) THEN <<"Invalid value">> ELSE <<>>)
    \o (IF email \in accounts THEN <<"E-mail must be a valid e-mail.">> ELSE <<>>)
    \o (IF ~PasswordOk(password) THEN <<PasswordMessage>> ELSE <<>>)
    \o (IF firstName = "" THEN <<"First name cannot be empty.">> ELSE <<>>)
    \o (IF lastName = "" THEN <<"Last name cannot be empty.">> ELSE <<>>)

\* Messages of the errors addNewUser rejects with.
UserErrors == DbErrors \cup {"ER_DUP_ENTRY", "undefined"}

\* .catch((error) => res.status(500).json(new Transport(500,
\*     error.message !== 'undefined' ? error.message : 'Internal Server Error',
\*     null)))
UserCreateCatch(message) ==
    Transport(500, <<IF message # "undefined" THEN message ELSE InternalMessage>>,
              "null", <<>>)

\* .then((extId) => { if (extId == null) throw new Error('Internal Server
\* Error'); return res.json(new Transport(200, null, { extId })) })
UserCreateThen(isNull, extId) ==
    IF isNull THEN UserCreateCatch(InternalMessage)
    ELSE Transport(200, <<>>, "value", <<extId>>)

\* The request fails validation: 422 with the messages.
UserCreateInvalid(email, password, firstName, lastName) ==
    /\ ValidationErrors(email, password, firstName, lastName) # <<>>
    /\ userRes' = [outcome |-> "invalid", message |-> "",
                   res |-> Transport(422,
                              ValidationErrors(email, password, firstName, lastName),
                              "null", <<>>)]
    /\ UNCHANGED <<accounts, nextExtId>>

\* addNewUser stores the user and resolves with its external id.
UserCreate(email, password, firstName, lastName) ==
    /\ ValidationErrors(email, password, firstName, lastName) = <<>>
    /\ accounts' = accounts \cup {email}
    /\ nextExtId' = nextExtId + 1
    /\ userRes' = [outcome |-> "created", message |-> "",
                   res |-> UserCreateThen(FALSE, nextExtId)]

\* addNewUser resolves with no external id.
UserCreateNull(email, password, firstName, lastName) ==
    /\ ValidationErrors(email, password, firstName, lastName) = <<>>
    /\ userRes' = [outcome |-> "null", message |-> "",
                   res |-> UserCreateThen(TRUE, 0)]
    /\ UNCHANGED <<accounts, nextExtId>>

\* addNewUser rejects.
UserCreateFault(email, password, firstName, lastName, e) ==
    /\ ValidationErrors(email, password, firstName, lastName) = <<>>
    /\ userRes' = [outcome |-> "rejected", message |-> e, res |-> UserCreateCatch(e)]
    /\ UNCHANGED <<accounts, nextExtId>>

UserInit ==
    /\ circles = {}
    /\ members = {}
    /\ nextCircleId = 1
    /\ req = [s \in Slots |-> IdleReq]
    /\ overlap = [u \in Users |-> FALSE]
    /\ byUser = ByUserIdle
    /\ ExpensesIdle
    /\ UserIdle

UserNext ==
    \/ \E e \in EmailInputs, p \in PasswordInputs, f \in NameInputs, l \in NameInputs :
           UserCreateInvalid(e, p, f, l) /\ UNCHANGED <<circleVars, expensesVars>>
    \/ \E e \in EmailInputs, p \in PasswordInputs, f \in NameInputs, l \in NameInputs :
           UserCreate(e, p, f, l) /\ UNCHANGED <<circleVars, expensesVars>>
    \/ \E e \in EmailInputs, p \in PasswordInputs, f \in NameInputs, l \in NameInputs :
           UserCreateNull(e, p, f, l) /\ UNCHANGED <<circleVars, expensesVars>>
    \/ \E e \in EmailInputs, p \in PasswordInputs, f \in NameInputs, l \in NameInputs,
          x \in UserErrors :
           UserCreateFault(e, p, f, l, x) /\ UNCHANGED <<circleVars, expensesVars>>

SpecUser == UserInit /\ [][UserNext]_vars

\* C8: whenever addNewUser rejects, or resolves with no external id, the
\* answer is a 500 whose error text is the generic 'Internal Server Error'.
ServerErrorIsGeneric ==
    userRes.outcome \in {"null", "rejected"} =>
        /\ userRes.res.status = 500
        /\ userRes.res.errors = <<InternalMessage>>

====
